---- MODULE Spec2Model ----
(***************************************************************************)
(* Model of the podcast pipeline: the blaxel-search MCP client and manager *)
(* (src/src/web_search.py), the page fetcher and script synthesizers       *)
(* (src/src/script_maker.py) and the pipeline driver                       *)
(* (src/generate_podcast.py).                                              *)
(*                                                                         *)
(* Text is a sequence of one-character strings.  Scores are floats in the  *)
(* code; the model counts them in hundredths (0.5 is 50).                  *)
(***************************************************************************)
EXTENDS Integers, Sequences, FiniteSets, TLC

VARIABLES
    s_pc,        \* position of the search call: idle, posted, responded, done
    s_cap,       \* WebSearchManager.max_results
    s_call,      \* arguments search_for_topic was called with
    s_args,      \* arguments search_for_topic passed to BlaxelSearchMCPClient.search
    s_request,   \* tool arguments of the JSON-RPC request in flight
    s_posts,     \* number of HTTP POSTs issued
    s_http,      \* what the HTTP POST produced
    s_client,    \* outcome of BlaxelSearchMCPClient.search
    s_ret,       \* outcome of WebSearchManager.search_for_topic
    g_pc,        \* position of the synthesis call
    g_tool,      \* which synthesis tool is running
    g_urls,      \* its urls argument
    g_results,   \* what asyncio.gather collects, one slot per url
    g_completed, \* indices of the fetches in the order they resolved
    g_context,   \* the context document, one block per entry
    g_successful,\* successful_fetches
    g_summaries, \* source_summaries
    g_calls,     \* number of completion requests made
    g_llm,       \* what the completion request produced
    g_ret,       \* outcome of the synthesis call
    p_pc,        \* position of the pipeline run: start, searching, synthesizing, done
    p_urls,      \* the urls main got from search_and_extract_urls
    p_file,      \* the output file: absent, or what it holds
    p_writes,    \* number of times the output file was opened for writing
    p_ret,       \* outcome of main
    u_pc,        \* position of a single routine call: called, returned
    u_in,        \* the routine and its arguments
    u_out        \* what it returned

search_vars == <<s_pc, s_cap, s_call, s_args, s_request, s_posts, s_http, s_client, s_ret>>
synth_vars == <<g_pc, g_tool, g_urls, g_results, g_completed, g_context,
                g_successful, g_summaries, g_calls, g_llm, g_ret>>
pipe_vars == <<p_pc, p_urls, p_file, p_writes, p_ret>>
unit_vars == <<u_pc, u_in, u_out>>
vars == <<search_vars, synth_vars, pipe_vars, unit_vars>>

----------------------------------------------------------------------------
(* Bounds of the model *)

MaxHits == 2          \* longest list of hits a response carries
MaxResultsArg == 2    \* largest max_results a caller passes
MaxUrls == 2          \* longest urls argument of a synthesis call

(* Program constants *)

TitleLimit == 200
DescLimit == 300
TextLimit == 300
DegradedScore == 50
HttpOk == 200
DefaultDaysBack == 7
DefaultMaxResults == 10
ContentLimit == 15000
PreviewLimit == 3000

----------------------------------------------------------------------------
(* Python values *)

Null == [t |-> "null"]
Num(n) == [t |-> "num", v |-> n]
Str(cs) == [t |-> "str", v |-> cs]
\* a string holding the JSON encoding of doc; Str holds text that is no JSON document
JsonText(doc) == [t |-> "jsontext", v |-> doc]
List(xs) == [t |-> "list", v |-> xs]
\* a dict is its sequence of <<key, value>> pairs, keys distinct
Dict(kvs) == [t |-> "dict", v |-> kvs]

Ok(v) == [ok |-> TRUE, val |-> v]
Raise(e) == [ok |-> FALSE, exc |-> e]

Absent == [t |-> "absent"]

Min(a, b) == IF a <= b THEN a ELSE b
Max(a, b) == IF a >= b THEN a ELSE b
Rep(c, n) == [i \in 1..n |-> c]

IsStr(x) == x.t \in {"str", "jsontext"}

HasKey(d, k) == \E i \in 1..Len(d.v) : d.v[i][1] = k
DictGet(d, k) == d.v[CHOOSE i \in 1..Len(d.v) : d.v[i][1] = k][2]
\* dict.get(k, default)
get(d, k, default) == IF HasKey(d, k) THEN DictGet(d, k) ELSE default

\* bool(x)
Truthy(x) ==
    CASE x.t = "null" -> FALSE
      [] x.t = "num" -> x.v # 0
      [] x.t = "str" -> Len(x.v) > 0
      [] x.t = "jsontext" -> TRUE
      [] x.t = "list" -> Len(x.v) > 0
      [] x.t = "dict" -> Len(x.v) > 0

\* a or b
PyOr(a, b) == IF Truthy(a) THEN a ELSE b

\* s[:n]
Take(s, n) ==
    IF n >= 0 THEN SubSeq(s, 1, Min(n, Len(s)))
    ELSE SubSeq(s, 1, Max(Len(s) + n, 0))

KeyChars(k) ==
    CASE k = "error" -> <<"e", "r", "r", "o", "r">>
      [] k = "content" -> <<"c", "o", "n", "t", "e", "n", "t">>

Contains(sub, s) ==
    \E i \in 1..(Len(s) - Len(sub) + 1) : SubSeq(s, i, i + Len(sub) - 1) = sub

\* k in x
PyIn(k, x) ==
    CASE x.t = "dict" -> Ok(HasKey(x, k))
      [] x.t = "list" ->
            Ok(\E i \in 1..Len(x.v) : x.v[i].t = "str" /\ x.v[i].v = KeyChars(k))
      [] x.t = "str" -> Ok(Contains(KeyChars(k), x.v))
      [] x.t \in {"null", "num"} -> Raise("TypeError")

\* x[k] for a string key k
PyIndex(x, k) ==
    CASE x.t = "dict" -> IF HasKey(x, k) THEN Ok(DictGet(x, k)) ELSE Raise("KeyError")
      [] OTHER -> Raise("TypeError")

\* float(x), in hundredths
PyFloat(x) ==
    CASE x.t = "num" -> Ok(x.v)
      [] x.t = "jsontext" -> IF x.v.t = "num" THEN Ok(x.v.v) ELSE Raise("ValueError")
      [] x.t = "str" -> Raise("ValueError")
      [] OTHER -> Raise("TypeError")

\* str(x) of a string
PyStr(x) == CASE x.t = "str" -> x.v

\* json.loads(x)
json_loads(x) ==
    CASE x.t = "jsontext" -> Ok(x.v)
      [] x.t = "str" -> Raise("JSONDecodeError")
      [] OTHER -> Raise("TypeError")

----------------------------------------------------------------------------
(* BlaxelSearchMCPClient *)

SearchResultLiteral == <<"S", "e", "a", "r", "c", "h", " ", "R", "e", "s", "u", "l", "t">>
SearchResultsFor == <<"S", "e", "a", "r", "c", "h", " ", "r", "e", "s", "u", "l", "t", "s", " ", "f", "o", "r", ":", " ">>
Ellipsis == <<".", ".", ".">>

SearchResult(title, url, description, relevance_score) ==
    [t |-> "SearchResult", title |-> title, url |-> url,
     description |-> description, relevance_score |-> relevance_score]

\* float(item.get("relevance_score", 0.0)) or float(item.get("score", 0.0))
relevance_of(item) ==
    LET a == PyFloat(get(item, "relevance_score", Num(0)))
    IN  IF ~a.ok THEN a
        ELSE IF a.val # 0 THEN a
        ELSE PyFloat(get(item, "score", Num(0)))

title_of(item) ==
    PyOr(get(item, "title", Null),
         PyOr(get(item, "name", Null),
              PyOr(get(item, "heading", Null), Str(SearchResultLiteral))))

url_of(item) ==
    PyOr(get(item, "url", Null),
         PyOr(get(item, "link", Null),
              PyOr(get(item, "href", Null), Str(<<>>))))

\* the description taken from the description key alone
description_of_first_key_only(item) == PyOr(get(item, "description", Null), Str(<<>>))

description_of(item) ==
    PyOr(get(item, "description", Null),
         PyOr(get(item, "snippet", Null),
              PyOr(get(item, "summary", Null),
                   PyOr(get(item, "content", Null), Str(<<>>)))))

\* the test with the url forgotten
keep_hit_title_only(url, title) == Truthy(title)

\* if url and title
keep_hit(url, title) == Truthy(url) /\ Truthy(title)

\* a SearchResult, or Null for None
create_search_result(item) ==
    LET title == title_of(item)
        url == url_of(item)
        description == description_of(item)
        relevance_score == relevance_of(item)
    IN  IF ~relevance_score.ok THEN Null
        ELSE IF keep_hit(url, title)
             THEN SearchResult(Take(PyStr(title), TitleLimit), PyStr(url),
                               Take(PyStr(description), DescLimit), relevance_score.val)
             ELSE Null

\* the slice with max_results ignored
sliced_all(x, max_results) ==
    CASE x.t = "list" -> Ok(x.v)
      [] OTHER -> Raise("TypeError")

\* the elements of x[:max_results]; the characters of a JSON text stand as no elements,
\* since the loop skips every element that is not a dict
sliced(x, max_results) ==
    CASE x.t = "list" -> Ok(Take(x.v, max_results))
      [] x.t = "str" ->
            Ok([i \in 1..Len(Take(x.v, max_results)) |-> Str(<<x.v[i]>>)])
      [] x.t = "jsontext" -> Ok(<<>>)
      [] OTHER -> Raise("TypeError")

RECURSIVE collect(_)
collect(items) ==
    IF Len(items) = 0 THEN <<>>
    ELSE LET item == Head(items)
             result == IF item.t = "dict" THEN create_search_result(item) ELSE Null
         IN  (IF result.t # "null" THEN <<result>> ELSE <<>>) \o collect(Tail(items))

\* the loop run over every item until max_results records are kept
for_items_filling(x, max_results) ==
    LET s == sliced_all(x, max_results)
    IN  IF s.ok THEN Ok(Take(collect(s.val), max_results)) ELSE s

for_items(x, max_results) ==
    LET s == sliced(x, max_results)
    IN  IF s.ok THEN Ok(collect(s.val)) ELSE s

\* the bare list looped over without the slice
parse_search_results_list_unsliced(data, max_results) ==
    LET body ==
            IF data.t = "dict" THEN
                IF HasKey(data, "results") THEN for_items(DictGet(data, "results"), max_results)
                ELSE IF HasKey(data, "links") THEN for_items(DictGet(data, "links"), max_results)
                ELSE IF HasKey(data, "url") THEN Ok(collect(<<data>>))
                ELSE Ok(<<>>)
            ELSE IF data.t = "list" THEN Ok(collect(data.v))
            ELSE Ok(<<>>)
    IN  IF body.ok THEN body.val ELSE <<>>

\* the links key tested before the results key
parse_search_results_links_first(data, max_results) ==
    LET body ==
            IF data.t = "dict" THEN
                IF HasKey(data, "links") THEN for_items(DictGet(data, "links"), max_results)
                ELSE IF HasKey(data, "results") THEN for_items(DictGet(data, "results"), max_results)
                ELSE IF HasKey(data, "url") THEN Ok(collect(<<data>>))
                ELSE Ok(<<>>)
            ELSE IF data.t = "list" THEN for_items(data, max_results)
            ELSE Ok(<<>>)
    IN  IF body.ok THEN body.val ELSE <<>>

parse_search_results(data, max_results) ==
    LET body ==
            IF data.t = "dict" THEN
                IF HasKey(data, "results") THEN for_items(DictGet(data, "results"), max_results)
                ELSE IF HasKey(data, "links") THEN for_items(DictGet(data, "links"), max_results)
                ELSE IF HasKey(data, "url") THEN Ok(collect(<<data>>))
                ELSE Ok(<<>>)
            ELSE IF data.t = "list" THEN for_items(data, max_results)
            ELSE Ok(<<>>)
    IN  IF body.ok THEN body.val ELSE <<>>

parse_text_results(text, query) ==
    << SearchResult(SearchResultsFor \o query, <<>>,
                    Take(text, TextLimit) \o (IF Len(text) > TextLimit THEN Ellipsis ELSE <<>>),
                    DegradedScore) >>

\* the response data, or the exception raised
send_mcp_request(http) ==
    IF http.kind = "neterr" THEN Raise("NetworkError")
    ELSE IF http.status # HttpOk THEN Raise("HTTPError")
    ELSE LET response_data == json_loads(http.body)
         IN  IF ~response_data.ok THEN Raise("InvalidJSON")
             ELSE LET has == PyIn("error", response_data.val)
                  IN  IF ~has.ok THEN has
                      ELSE IF has.val THEN
                          LET e == PyIndex(response_data.val, "error")
                          IN  IF ~e.ok THEN e
                              ELSE IF e.val.t = "dict" THEN Raise("MCPError")
                              ELSE Raise("AttributeError")
                      ELSE response_data

from_text(content_text, query, max_results) ==
    LET search_data == json_loads(content_text)
    IN  IF search_data.ok THEN Ok(parse_search_results(search_data.val, max_results))
        ELSE IF search_data.exc = "JSONDecodeError"
             THEN Ok(parse_text_results(content_text.v, query))
             ELSE search_data

\* the content taken as structured data unless its first item carries a text
from_content_structured_only(content, query, max_results) ==
    IF content.t = "list" /\ Len(content.v) > 0
       /\ content.v[1].t = "dict" /\ HasKey(content.v[1], "text")
    THEN from_text(DictGet(content.v[1], "text"), query, max_results)
    ELSE Ok(parse_search_results(content, max_results))

from_content(content, query, max_results) ==
    IF content.t = "list" /\ Len(content.v) > 0 THEN
        IF content.v[1].t = "dict" /\ HasKey(content.v[1], "text")
        THEN from_text(DictGet(content.v[1], "text"), query, max_results)
        ELSE Ok(parse_search_results(content, max_results))
    ELSE IF IsStr(content) THEN from_text(content, query, max_results)
    ELSE Ok(parse_search_results(content, max_results))

\* the body of search's try block
search_try(query, max_results, http) ==
    LET response == send_mcp_request(http)
    IN  IF ~response.ok THEN response
        ELSE IF response.val.t # "dict" THEN Raise("AttributeError")
        ELSE LET result_data == get(response.val, "result", Dict(<<>>))
                 has == PyIn("content", result_data)
             IN  IF ~has.ok THEN has
                 ELSE IF has.val THEN
                     LET content == PyIndex(result_data, "content")
                     IN  IF ~content.ok THEN content
                         ELSE from_content(content.val, query, max_results)
                 ELSE Ok(parse_search_results(result_data, max_results))

\* search without its except clause
search_uncaught(query, max_results, http) == search_try(query, max_results, http)

\* except Exception: return []
search(query, max_results, http) ==
    LET r == search_try(query, max_results, http)
    IN  IF r.ok THEN r ELSE Ok(<<>>)

\* the arguments map of the web_search_exa call
tool_arguments(query, max_results, news_only, days_back) ==
    [query |-> query,
     numResults |-> max_results,
     category |-> IF news_only THEN "news" ELSE "absent",
     startDaysBack |-> IF news_only /\ days_back # 0 THEN Num(days_back) ELSE Absent]

----------------------------------------------------------------------------
(* WebSearchManager *)

Default(x, d) == IF x.t = "absent" THEN d ELSE x

\* max_results or self.max_results
effective_max_results(max_results, cap) == PyOr(max_results, Num(cap)).v

\* what search_for_topic passes to client.search
client_args(call, cap) ==
    [query |-> call.user_input,
     max_results |-> effective_max_results(Default(call.max_results, Null), cap),
     news_only |-> Default(call.news_only, [t |-> "bool", v |-> TRUE]).v,
     days_back |-> Default(call.days_back, Num(DefaultDaysBack)).v]

\* try: return self.client.search(...) except Exception: return []
search_for_topic_result(client) == IF client.ok THEN client ELSE Ok(<<>>)

----------------------------------------------------------------------------
(* Inputs of the search model: callers' arguments and what the remote end sends *)

Bool(b) == [t |-> "bool", v |-> b]

ShortQuery == <<"q">>
\* a query that makes "Search results for: {query}" one character longer than TitleLimit
LongQuery == Rep("q", TitleLimit - Len(SearchResultsFor) + 1)
ShortText == <<"T">>
OtherText == <<"N">>
LongTitle == Rep("t", TitleLimit + 1)
LongDesc == Rep("d", DescLimit + 1)
Url1 == <<"u", "1">>
Url2 == <<"u", "2">>

SampleHits ==
    { Dict(<< <<"title", Str(ShortText)>>, <<"url", Str(Url1)>> >>),
      Dict(<< <<"title", Str(LongTitle)>>, <<"url", Str(Url1)>>,
              <<"description", Str(LongDesc)>> >>),
      Dict(<< <<"url", Str(Url2)>>, <<"snippet", Str(OtherText)>> >>),
      Dict(<< <<"description", Str(ShortText)>> >>),
      Dict(<< <<"title", Str(<<>>)>>, <<"name", Str(OtherText)>>, <<"url", Null>>,
              <<"link", Str(Url2)>>, <<"summary", Str(ShortText)>>,
              <<"relevance_score", Num(75)>> >>),
      Dict(<< <<"title", Str(ShortText)>>, <<"url", Str(Url1)>>, <<"score", Num(-100)>> >>),
      Dict(<< <<"title", Str(ShortText)>>, <<"url", Str(Url2)>>,
              <<"relevance_score", Num(0)>>, <<"score", Num(50)>> >>),
      Dict(<< <<"title", Str(ShortText)>>, <<"url", Str(Url1)>>,
              <<"score", Str(<<"a", "b", "c">>)>> >>) }

\* a list of hits may also hold an element that is no dict
SampleItems == SampleHits \cup {Str(<<"x">>)}

HitLists == UNION {[1..n -> SampleItems] : n \in 0..MaxHits}

\* the three list-carrying shapes of structured data
ListShapes(hits) ==
    { List(hits),
      Dict(<< <<"results", List(hits)>> >>),
      Dict(<< <<"links", List(hits)>> >>) }

OneHit == Dict(<< <<"title", Str(ShortText)>>, <<"url", Str(Url1)>> >>)

OtherStructured ==
    { OneHit,
      Dict(<<>>),
      Dict(<< <<"results", Null>>, <<"links", List(<<OneHit>>)>> >>),
      Dict(<< <<"results", Str(<<"x", "y">>)>> >>),
      Dict(<< <<"results", List(<<OneHit>>)>>, <<"links", List(<<>>)>> >>),
      Dict(<< <<"links", Num(3)>>, <<"url", Str(Url1)>> >>),
      Num(7),
      Null }

PlainTexts == {<<>>, ShortText, Rep("p", TextLimit), Rep("p", TextLimit + 1)}

TextItem(text) == Dict(<< <<"type", Str(<<"t">>)>>, <<"text", text>> >>)

\* values of the envelope's result member
ResultValues ==
    UNION {
      \* result.content[0].text is JSON text
      { Dict(<< <<"content", List(<<TextItem(JsonText(d))>>)>> >>) :
            d \in UNION {ListShapes(h) : h \in HitLists} \cup OtherStructured },
      \* result.content[0].text is plain text, or no string
      { Dict(<< <<"content", List(<<TextItem(Str(p))>>)>> >>) : p \in PlainTexts },
      { Dict(<< <<"content", List(<<TextItem(Null)>>)>> >>),
        Dict(<< <<"content", List(<<TextItem(Num(1))>>)>> >>) },
      \* result.content is the list of hits itself
      { Dict(<< <<"content", List(h)>> >>) : h \in HitLists },
      \* result.content is a string, a dict or null
      { Dict(<< <<"content", c>> >>) :
            c \in {JsonText(List(<<OneHit>>)), Str(ShortText), Str(Rep("p", TextLimit + 1)),
                   Dict(<< <<"results", List(<<OneHit>>)>> >>), Null, Num(2)} },
      \* result is the structured data
      UNION {ListShapes(h) : h \in HitLists},
      OtherStructured,
      { Str(<<"x">>), Str(<<"n", "o", " ">> \o KeyChars("content")) } }

Envelopes ==
    { Dict(<< <<"jsonrpc", Str(<<"2">>)>>, <<"result", r>> >>) : r \in ResultValues }
    \cup
    { Dict(<< <<"jsonrpc", Str(<<"2">>)>> >>),
      Dict(<< <<"error", Dict(<< <<"message", Str(ShortText)>> >>)>> >>),
      Dict(<< <<"error", Dict(<<>>)>>, <<"result", List(<<OneHit>>)>> >>),
      Dict(<< <<"error", Null>>, <<"result", List(<<OneHit>>)>> >>),
      Dict(<< <<"error", Str(ShortText)>> >>) }

\* JSON bodies that are no map
NonMapBodies ==
    { List(<<>>), List(<<OneHit>>), List(<<Str(KeyChars("error"))>>),
      Num(5), Null, Str(ShortText), Str(<<"a", "n", " ">> \o KeyChars("error")) }

HttpOutcomes ==
    { [kind |-> "neterr"] }
    \cup { [kind |-> "response", status |-> st, body |-> Str(ShortText)] : st \in {404, 500} }
    \cup { [kind |-> "response", status |-> 500,
            body |-> JsonText(Dict(<< <<"result", List(<<OneHit>>)>> >>))] }
    \cup { [kind |-> "response", status |-> HttpOk, body |-> Str(ShortText)] }
    \cup { [kind |-> "response", status |-> HttpOk, body |-> JsonText(j)] :
            j \in Envelopes \cup NonMapBodies }

Calls ==
    [user_input : {ShortQuery, LongQuery},
     max_results : {Absent} \cup {Num(n) : n \in (-1)..MaxResultsArg},
     news_only : {Absent, Bool(FALSE)},
     days_back : {Absent, Num(0)}]

\* max_results_per_search of the manager: a small cap, and the default
ManagerCaps == {1, DefaultMaxResults}

None == [t |-> "none"]

----------------------------------------------------------------------------
(* The search call *)

SearchInit ==
    /\ s_pc = "idle"
    /\ s_cap \in ManagerCaps
    /\ s_call = None
    /\ s_args = None
    /\ s_request = None
    /\ s_posts = 0
    /\ s_http = None
    /\ s_client = None
    /\ s_ret = None

\* search_for_topic is called; it calls client.search, which posts the request
SearchForTopic ==
    /\ s_pc = "idle"
    /\ \E call \in Calls :
        LET args == client_args(call, s_cap)
        IN  /\ s_call' = call
            /\ s_args' = args
            /\ s_request' = tool_arguments(args.query, args.max_results,
                                           args.news_only, args.days_back)
    /\ s_posts' = s_posts + 1
    /\ s_pc' = "posted"
    /\ UNCHANGED <<s_cap, s_http, s_client, s_ret>>
    /\ UNCHANGED <<synth_vars, pipe_vars, unit_vars>>

\* session.post returns or raises; the request and the locals that are not read
\* again are dropped from the state
HttpRespond ==
    /\ s_pc = "posted"
    /\ \E h \in HttpOutcomes : s_http' = h
    /\ s_request' = None
    /\ s_call' = None
    /\ s_args' = [query |-> s_args.query, max_results |-> s_args.max_results]
    /\ s_pc' = "responded"
    /\ UNCHANGED <<s_cap, s_posts, s_client, s_ret>>
    /\ UNCHANGED <<synth_vars, pipe_vars, unit_vars>>

\* the rest of _send_mcp_request, of search and of search_for_topic
SearchReturn ==
    /\ s_pc = "responded"
    /\ s_client' = search(s_args.query, s_args.max_results, s_http)
    /\ s_ret' = search_for_topic_result(s_client')
    /\ s_pc' = "done"
    /\ UNCHANGED <<s_cap, s_call, s_args, s_request, s_posts, s_http>>
    /\ UNCHANGED <<synth_vars, pipe_vars, unit_vars>>

SearchNext ==
    \/ SearchForTopic
    \/ HttpRespond
    \/ SearchReturn

----------------------------------------------------------------------------
(* Page Fetcher: fetch_webpage *)

Whitespace == {" ", "\n", "\t"}

RECURSIVE lstrip(_)
lstrip(s) == IF Len(s) > 0 /\ Head(s) \in Whitespace THEN lstrip(Tail(s)) ELSE s

RECURSIVE rstrip(_)
rstrip(s) ==
    IF Len(s) > 0 /\ s[Len(s)] \in Whitespace THEN rstrip(SubSeq(s, 1, Len(s) - 1)) ELSE s

\* s.strip()
strip(s) == rstrip(lstrip(s))

\* the least element of a set of positions, 0 for the empty set
First(P) == IF P = {} THEN 0 ELSE CHOOSE i \in P : \A j \in P : i <= j

\* s.splitlines(): the lines of s, the line breaks removed
RECURSIVE splitlines(_)
splitlines(s) ==
    IF Len(s) = 0 THEN <<>>
    ELSE LET b == First({i \in 1..Len(s) : s[i] = "\n"})
         IN  IF b = 0 THEN <<s>>
             ELSE <<SubSeq(s, 1, b - 1)>> \o splitlines(SubSeq(s, b + 1, Len(s)))

\* s.split("  ")
RECURSIVE split_double(_)
split_double(s) ==
    LET d == First({i \in 1..(Len(s) - 1) : s[i] = " " /\ s[i + 1] = " "})
    IN  IF d = 0 THEN <<s>>
        ELSE <<SubSeq(s, 1, d - 1)>> \o split_double(SubSeq(s, d + 2, Len(s)))

\* the stripped phrases of the stripped lines, in order
RECURSIVE chunks_of(_)
chunks_of(lines) ==
    IF Len(lines) = 0 THEN <<>>
    ELSE LET phrases == split_double(strip(Head(lines)))
         IN  [i \in 1..Len(phrases) |-> strip(phrases[i])] \o chunks_of(Tail(lines))

\* ' '.join(chunks)
RECURSIVE join_space(_)
join_space(chunks) ==
    IF Len(chunks) = 0 THEN <<>>
    ELSE IF Len(chunks) = 1 THEN chunks[1]
    ELSE chunks[1] \o <<" ">> \o join_space(Tail(chunks))

NonEmpty(chunk) == Len(chunk) > 0

\* the whitespace clean-up of the page text
clean_text(text) == join_space(SelectSeq(chunks_of(splitlines(text)), NonEmpty))

NoTitle == <<"N", "o", " ", "t", "i", "t", "l", "e">>

\* the try block with the page text cut to the limit before the whitespace clean-up
fetch_try_cut_first(url, outcome) ==
    IF outcome.kind = "error" THEN Raise(outcome.message)
    ELSE Ok([t |-> "FetchedPage", url |-> url,
             title |-> IF outcome.title.t = "absent" THEN Str(NoTitle) ELSE outcome.title,
             content |-> Str(clean_text(Take(outcome.text, ContentLimit))),
             success |-> TRUE,
             error |-> Null])

\* the body of fetch_webpage's try block, for what the GET and the parse produce
fetch_try(url, outcome) ==
    IF outcome.kind = "error" THEN Raise(outcome.message)
    ELSE Ok([t |-> "FetchedPage", url |-> url,
             title |-> IF outcome.title.t = "absent" THEN Str(NoTitle) ELSE outcome.title,
             content |-> Str(Take(clean_text(outcome.text), ContentLimit)),
             success |-> TRUE,
             error |-> Null])

\* except Exception as e: the failure record, error = str(e)
fetch_webpage(url, outcome) ==
    LET r == fetch_try(url, outcome)
    IN  IF r.ok THEN r.val
        ELSE [t |-> "FetchedPage", url |-> url, title |-> Null, content |-> Null,
              success |-> FALSE, error |-> Str(r.exc)]

----------------------------------------------------------------------------
(* Script Synthesizer: the four tools *)

Tools == {"generate_podcast_script", "generate_storytelling_podcast",
          "analyze_sources_for_podcast", "compare_sources_podcast"}

RefusalMessage == "Error: Failed to fetch any webpages successfully. Please check the URLs."

\* the list asyncio.gather returns, with the fetches resolved in the order `completed`
\* taken in completion order
gather_in_completion_order(results, completed) ==
    [k \in 1..Len(results) |-> results[completed[k]]]

\* the join with the failed fetches left out
gather_dropping_failures(results, completed) ==
    LET Kept(result) == result.success IN SelectSeq(results, Kept)

\* the list asyncio.gather returns: the results in the order of its arguments
gather(results, completed) == results

Pending == [t |-> "pending"]

\* two tasks per url, as a retry would start
fetch_tasks_twice(urls) == [i \in 1..(2 * Len(urls)) |-> Pending]

\* fetch_tasks: one fetch_webpage task per url, none resolved yet
fetch_tasks(urls) == [i \in 1..Len(urls) |-> Pending]

\* the block the loop adds to the context for the i-th result, as a sequence of at
\* most one block
block_of(tool, i, result) ==
    IF result.success THEN
        CASE tool = "generate_podcast_script" ->
                << [n |-> i, kind |-> "source", title |-> result.title,
                    url |-> result.url, content |-> result.content] >>
          [] tool = "generate_storytelling_podcast" ->
                << [n |-> i, kind |-> "source", title |-> result.title,
                    content |-> result.content] >>
          [] tool = "analyze_sources_for_podcast" ->
                << [n |-> i, kind |-> "source", title |-> result.title, url |-> result.url,
                    content |-> Str(Take(result.content.v, PreviewLimit) \o Ellipsis)] >>
          [] tool = "compare_sources_podcast" ->
                << [n |-> i, kind |-> "source", title |-> result.title,
                    url |-> result.url, content |-> result.content] >>
    ELSE IF tool = "generate_podcast_script"
         THEN << [n |-> i, kind |-> "FAILED", url |-> result.url, error |-> result.error] >>
         ELSE <<>>

\* for i, result in enumerate(results, 1): the context blocks
RECURSIVE context_from(_, _, _)
context_from(tool, results, i) ==
    IF i > Len(results) THEN <<>>
    ELSE block_of(tool, i, results[i]) \o context_from(tool, results, i + 1)

build_context(tool, results) == context_from(tool, results, 1)

\* source_summaries: one "- {title} ({url})" entry per successful result
RECURSIVE summaries_from(_, _)
summaries_from(results, i) ==
    IF i > Len(results) THEN <<>>
    ELSE (IF results[i].success
          THEN << [title |-> results[i].title, url |-> results[i].url] >>
          ELSE <<>>) \o summaries_from(results, i + 1)

source_summaries(results) == summaries_from(results, 1)

\* successful_fetches
RECURSIVE count_successes(_)
count_successes(results) ==
    IF Len(results) = 0 THEN 0
    ELSE (IF Head(results).success THEN 1 ELSE 0) + count_successes(Tail(results))

\* the refusal is never taken
refuses_never(tool, successful_fetches) == FALSE

\* if successful_fetches == 0: return the refusal; only generate_podcast_script has it
refuses(tool, successful_fetches) ==
    tool = "generate_podcast_script" /\ successful_fetches = 0

\* the wrapper with the model's text left out
wrap_without_script(tool, script, successful_fetches, urls, summaries) ==
    [kind |-> "script", heading |-> "# PODCAST SCRIPT GENERATED",
     analyzed |-> <<successful_fetches, Len(urls)>>,
     body |-> "", sources |-> summaries]

\* the string a tool returns around the model's text
wrap(tool, script, successful_fetches, urls, summaries) ==
    CASE tool = "generate_podcast_script" ->
            [kind |-> "script", heading |-> "# PODCAST SCRIPT GENERATED",
             analyzed |-> <<successful_fetches, Len(urls)>>,
             body |-> script, sources |-> summaries]
      [] tool = "generate_storytelling_podcast" ->
            [kind |-> "script", heading |-> "# NARRATIVE PODCAST SCRIPT",
             body |-> script, sources |-> summaries]
      [] tool = "analyze_sources_for_podcast" ->
            [kind |-> "script", heading |-> "# PODCAST SOURCE ANALYSIS",
             body |-> script, sources |-> summaries]
      [] tool = "compare_sources_podcast" ->
            [kind |-> "script", heading |-> "# COMPARATIVE ANALYSIS PODCAST",
             count |-> Len(urls), body |-> script, sources |-> summaries]

\* {x} in an f-string
format_value(x) ==
    CASE x.t = "str" -> x.v
      [] x.t = "null" -> <<"N", "o", "n", "e">>

\* f"- {result['title']} ({result['url']})"
bullet(summary) ==
    <<"-", " ">> \o format_value(summary.title) \o <<" ", "(">> \o summary.url \o <<")">>

\* chr(10).join(lines)
RECURSIVE join_newline(_)
join_newline(lines) ==
    IF Len(lines) = 0 THEN <<>>
    ELSE IF Len(lines) = 1 THEN lines[1]
    ELSE lines[1] \o <<"\n">> \o join_newline(Tail(lines))

\* the text under "**Sources Referenced:**"
source_list(summaries) == join_newline([i \in 1..Len(summaries) |-> bullet(summaries[i])])

----------------------------------------------------------------------------
(* Inputs of the synthesis model *)

UrlPool == {Url1, Url2}

UrlLists == UNION {[1..n -> UrlPool] : n \in 0..MaxUrls}

\* what the GET and the HTML parse of one page produce: an exception with its str(),
\* or the document's title (Absent: no title element; Null: a title with no string)
\* and its text
FetchOutcomes ==
    { [kind |-> "error", message |-> <<"c", "o", "n", "n">>],
      [kind |-> "error", message |-> <<>>],
      [kind |-> "page", title |-> Str(ShortText), text |-> <<"a", " ", " ", "b", "\n", " ", "c">>],
      [kind |-> "page", title |-> Absent, text |-> <<"x">>],
      [kind |-> "page", title |-> Null, text |-> <<>>],
      \* a title element whose text is on a line of its own
      [kind |-> "page", title |-> Str(<<"\n", "T", "\n">>), text |-> <<"y">>] }

\* what client.messages.create produces: a message whose first block is text, an
\* exception, or a message with no content block (content[0] raises)
CompletionOutcomes ==
    { [kind |-> "text", text |-> "SCRIPT_BODY"],
      [kind |-> "error", message |-> "APIError"],
      [kind |-> "empty", message |-> "IndexError"] }

----------------------------------------------------------------------------
(* The synthesis call *)

SynthInit ==
    /\ g_pc = "idle"
    /\ g_tool = "none"
    /\ g_urls = <<>>
    /\ g_results = <<>>
    /\ g_completed = <<>>
    /\ g_context = <<>>
    /\ g_successful = 0
    /\ g_summaries = <<>>
    /\ g_calls = 0
    /\ g_llm = None
    /\ g_ret = None

AllResolved == Len(g_completed) = Len(g_urls)

\* a tool is called: it starts one fetch_webpage task per url and awaits the gather
CallTool ==
    /\ g_pc = "idle"
    /\ \E tool \in Tools, urls \in UrlLists :
        /\ g_tool' = tool
        /\ g_urls' = urls
        /\ g_results' = fetch_tasks(urls)
    /\ g_completed' = <<>>
    /\ g_pc' = "fetching"
    /\ UNCHANGED <<g_context, g_successful, g_summaries, g_calls, g_llm, g_ret>>
    /\ UNCHANGED <<search_vars, pipe_vars, unit_vars>>

\* one fetch_webpage task finishes, in any order among the pending ones
FetchResolve ==
    /\ g_pc = "fetching"
    /\ \E i \in 1..Len(g_urls), outcome \in FetchOutcomes :
        /\ g_results[i].t = "pending"
        /\ g_results' = [g_results EXCEPT ![i] = fetch_webpage(g_urls[i], outcome)]
        /\ g_completed' = Append(g_completed, i)
    /\ UNCHANGED <<g_pc, g_tool, g_urls, g_context, g_successful, g_summaries,
                   g_calls, g_llm, g_ret>>
    /\ UNCHANGED <<search_vars, pipe_vars, unit_vars>>

\* the gather returns; the tool builds the context and either refuses or sends the
\* completion request
Assemble ==
    /\ g_pc = "fetching"
    /\ AllResolved
    /\ LET results == gather(g_results, g_completed)
           successful_fetches == count_successes(results)
       IN  /\ g_context' = build_context(g_tool, results)
           /\ g_successful' = successful_fetches
           /\ g_summaries' = source_summaries(results)
           /\ IF refuses(g_tool, successful_fetches)
              THEN /\ g_ret' = Ok([kind |-> "refusal", text |-> RefusalMessage])
                   /\ g_calls' = g_calls
                   /\ g_pc' = "done"
              ELSE /\ g_ret' = g_ret
                   /\ g_calls' = g_calls + 1
                   /\ g_pc' = "completing"
    /\ UNCHANGED <<g_tool, g_urls, g_results, g_completed, g_llm>>
    /\ UNCHANGED <<search_vars, pipe_vars, unit_vars>>

\* client.messages.create returns or raises; the tool wraps the text and returns
CompletionRespond ==
    /\ g_pc = "completing"
    /\ \E outcome \in CompletionOutcomes :
        /\ g_llm' = outcome
        /\ g_ret' = IF outcome.kind = "text"
                    THEN Ok(wrap(g_tool, outcome.text, g_successful, g_urls, g_summaries))
                    ELSE Raise(outcome.message)
    /\ g_pc' = "done"
    /\ UNCHANGED <<g_tool, g_urls, g_results, g_completed, g_context, g_successful,
                   g_summaries, g_calls>>
    /\ UNCHANGED <<search_vars, pipe_vars, unit_vars>>

SynthNext ==
    \/ CallTool
    \/ FetchResolve
    \/ Assemble
    \/ CompletionRespond

----------------------------------------------------------------------------
(* Pipeline Driver: generate_podcast.py *)

NumResults == 8

Queries == {<<" ">>, ShortQuery}

\* the loop with the test of result.url forgotten
extract_urls_keeping_empty(results) == [i \in 1..Len(results) |-> results[i].url]

\* the urls with every repeated one left out
RECURSIVE deduplicated(_)
deduplicated(urls) ==
    IF Len(urls) = 0 THEN <<>>
    ELSE LET before == deduplicated(SubSeq(urls, 1, Len(urls) - 1))
             last == urls[Len(urls)]
         IN  IF \E i \in 1..Len(before) : before[i] = last THEN before
             ELSE Append(before, last)

extract_urls_deduplicated(results) ==
    LET HasUrl(result) == Len(result.url) > 0
        kept == SelectSeq(results, HasUrl)
    IN  deduplicated([i \in 1..Len(kept) |-> kept[i].url])

\* for result in results: if result.url: urls.append(result.url)
extract_urls(results) ==
    LET HasUrl(result) == Len(result.url) > 0
        kept == SelectSeq(results, HasUrl)
    IN  [i \in 1..Len(kept) |-> kept[i].url]

\* what search_for_links passes to search_for_topic
links_call(user_input, max_results) ==
    [user_input |-> user_input, max_results |-> Num(max_results),
     news_only |-> Bool(TRUE), days_back |-> Absent]

NoFile == [exists |-> FALSE]
FileWith(text) == [exists |-> TRUE, text |-> text]
OldFile == FileWith([kind |-> "earlier run"])
EmptyFile == FileWith([kind |-> "empty"])

\* generate_script_from_urls without its except clause
script_result_uncaught(script, opened) ==
    IF ~script.ok THEN script
    ELSE IF ~opened THEN Raise("OSError")
    ELSE Ok(Bool(TRUE))

\* what generate_script_from_urls returns: True after the write, False after an exception
script_result(script, opened) == Ok(Bool(script.ok /\ opened))

\* the output file opened for writing before the synthesizer is awaited
file_after_opened_first(file, script, opened) ==
    IF ~opened THEN file
    ELSE IF script.ok THEN FileWith(script.val) ELSE EmptyFile

\* the refusal message treated as a failure and not written
file_after_skipping_refusal(file, script, opened) ==
    IF script.ok /\ opened /\ script.val.kind # "refusal" THEN FileWith(script.val) ELSE file

\* the output file after generate_script_from_urls: open(output_path, 'w') and
\* f.write(script_content) run only once the synthesizer has returned
file_after(file, script, opened) ==
    IF script.ok /\ opened THEN FileWith(script.val) ELSE file

PipeIdle ==
    /\ p_pc = "start"
    /\ p_urls = <<>>
    /\ p_file = NoFile
    /\ p_writes = 0
    /\ p_ret = None

\* a run starts with the output file absent or, the name being stamped to the second,
\* left by an earlier run
PipeInit ==
    /\ p_pc = "start"
    /\ p_urls = <<>>
    /\ p_file \in {NoFile, OldFile}
    /\ p_writes = 0
    /\ p_ret = None

\* main reads the query; a blank one ends the run, any other goes through
\* search_and_extract_urls and search_for_links to search_for_topic and the POST
MainSearch ==
    /\ p_pc = "start"
    /\ \E query \in Queries :
        IF strip(query) = <<>>
        THEN /\ p_pc' = "done"
             /\ p_ret' = Ok(Null)
             /\ UNCHANGED search_vars
        ELSE LET call == links_call(query, NumResults)
                 args == client_args(call, NumResults)
             IN  /\ s_cap' = NumResults
                 /\ s_call' = call
                 /\ s_args' = args
                 /\ s_request' = tool_arguments(args.query, args.max_results,
                                                args.news_only, args.days_back)
                 /\ s_posts' = s_posts + 1
                 /\ s_pc' = "posted"
                 /\ p_pc' = "searching"
                 /\ p_ret' = p_ret
                 /\ UNCHANGED <<s_http, s_client, s_ret>>
    /\ UNCHANGED <<p_urls, p_file, p_writes>>
    /\ UNCHANGED <<synth_vars, unit_vars>>

\* the search has returned: search_and_extract_urls collects the urls; main stops when
\* there are none, and otherwise calls generate_script_from_urls, which awaits
\* generate_podcast_script, which starts the fetches.  The search's locals are dropped.
StartSynthesis ==
    /\ p_pc = "searching"
    /\ s_pc = "done"
    /\ IF ~s_ret.ok
       THEN /\ p_ret' = s_ret
            /\ p_pc' = "done"
            /\ UNCHANGED <<p_urls, synth_vars>>
       ELSE LET urls == extract_urls(s_ret.val)
            IN  /\ p_urls' = urls
                /\ IF urls = <<>>
                   THEN /\ p_ret' = Ok(Null)
                        /\ p_pc' = "done"
                        /\ UNCHANGED synth_vars
                   ELSE /\ g_tool' = "generate_podcast_script"
                        /\ g_urls' = urls
                        /\ g_results' = fetch_tasks(urls)
                        /\ g_completed' = <<>>
                        /\ g_pc' = "fetching"
                        /\ p_pc' = "synthesizing"
                        /\ p_ret' = p_ret
                        /\ UNCHANGED <<g_context, g_successful, g_summaries, g_calls,
                                       g_llm, g_ret>>
    /\ s_http' = None
    /\ s_client' = None
    /\ s_ret' = None
    /\ UNCHANGED <<s_pc, s_cap, s_call, s_args, s_request, s_posts>>
    /\ UNCHANGED <<p_file, p_writes>>
    /\ UNCHANGED unit_vars

\* generate_podcast_script has returned or raised: generate_script_from_urls writes the
\* file, or catches the exception, and main reports
FinishRun ==
    /\ p_pc = "synthesizing"
    /\ g_pc = "done"
    /\ \E opened \in BOOLEAN :
        /\ p_file' = file_after(p_file, g_ret, opened)
        /\ p_writes' = IF g_ret.ok /\ opened THEN p_writes + 1 ELSE p_writes
        /\ p_ret' = script_result(g_ret, opened)
    /\ p_pc' = "done"
    /\ UNCHANGED p_urls
    /\ UNCHANGED <<search_vars, synth_vars, unit_vars>>

PipelineNext ==
    \/ MainSearch
    \/ HttpRespond
    \/ SearchReturn
    \/ StartSynthesis
    \/ FetchResolve
    \/ Assemble
    \/ CompletionRespond
    \/ FinishRun

----------------------------------------------------------------------------
(* Single routines of the search client, format_results and fetch_webpage, each on *)
(* one input                                                                     *)

Digits == <<"0", "1", "2", "3", "4", "5", "6", "7", "8", "9">>

\* str(n) of an integer n >= 0
RECURSIVE decimal(_)
decimal(n) ==
    IF n < 10 THEN <<Digits[n + 1]>>
    ELSE decimal(n \div 10) \o <<Digits[(n % 10) + 1]>>

\* f"{x:.2f}" of a float x >= 0, given in hundredths
two_places(h) ==
    decimal(h \div 100) \o <<".">> \o <<Digits[((h % 100) \div 10) + 1], Digits[(h % 10) + 1]>>

NoLinksText == <<"N", "o", " ", "r", "e", "l", "e", "v", "a", "n", "t", " ", "l", "i", "n", "k", "s", " ", "f", "o", "u", "n", "d", ".">>
UrlLabel == <<" ", " ", " ", "U", "R", "L", ":", " ">>
DescriptionLabel == <<" ", " ", " ", "D", "e", "s", "c", "r", "i", "p", "t", "i", "o", "n", ":", " ">>
RelevanceLabel == <<" ", " ", " ", "R", "e", "l", "e", "v", "a", "n", "c", "e", ":", " ">>

\* the entry with the URL line always written
entry_with_url_always(i, result) ==
    << decimal(i) \o <<".", " ">> \o result.title >>
    \o << UrlLabel \o result.url >>
    \o (IF Len(result.description) > 0
        THEN << DescriptionLabel \o result.description >> ELSE <<>>)
    \o (IF result.relevance_score > 0
        THEN << RelevanceLabel \o two_places(result.relevance_score) >> ELSE <<>>)
    \o << <<>> >>

\* the lines the loop appends to output for the i-th result
entry(i, result) ==
    << decimal(i) \o <<".", " ">> \o result.title >>
    \o (IF Len(result.url) > 0 THEN << UrlLabel \o result.url >> ELSE <<>>)
    \o (IF Len(result.description) > 0
        THEN << DescriptionLabel \o result.description >> ELSE <<>>)
    \o (IF result.relevance_score > 0
        THEN << RelevanceLabel \o two_places(result.relevance_score) >> ELSE <<>>)
    \o << <<>> >>

\* for i, result in enumerate(results, 1): the lines of output
RECURSIVE entries_from(_, _)
entries_from(results, i) ==
    IF i > Len(results) THEN <<>>
    ELSE entry(i, results[i]) \o entries_from(results, i + 1)

format_results(results) ==
    IF Len(results) = 0 THEN NoLinksText
    ELSE join_newline(entries_from(results, 1))

\* SearchResult records handed to format_results
SampleResults ==
    { SearchResult(ShortText, url, description, relevance_score) :
        url \in {<<>>, Url1}, description \in {<<>>, OtherText},
        relevance_score \in {-100, 0, 75} }

ResultLists == UNION {[1..n -> SampleResults] : n \in 0..MaxHits}

\* page texts around the content limit: one character over it; exactly at it once the
\* leading blanks are stripped; and over it only after the clean-up has joined two phrases
LongPages ==
    { [kind |-> "page", title |-> Str(ShortText), text |-> text] :
        text \in { Rep("w", ContentLimit + 1),
                   <<" ", " ">> \o Rep("w", ContentLimit),
                   Rep("w", ContentLimit - 1) \o <<" ", " ", "z", "z">> } }

\* what a key of a hit may hold: nothing (the key is missing), null, "", or a text
FieldValues(text) == {Absent, Null, Str(<<>>), Str(text)}

\* the map of the pairs whose value is not Absent
MakeDict(pairs) ==
    LET Present(pair) == pair[2].t # "absent" IN Dict(SelectSeq(pairs, Present))

\* hits that vary the title-like, the url-like, the description-like and the score keys
TitleHits ==
    { MakeDict(<< <<"title", a>>, <<"name", b>>, <<"heading", c>>, <<"url", Str(Url1)>> >>) :
        a \in FieldValues(<<"A">>), b \in FieldValues(<<"B">>), c \in FieldValues(<<"C">>) }

UrlHits ==
    { MakeDict(<< <<"title", Str(ShortText)>>, <<"url", a>>, <<"link", b>>, <<"href", c>> >>) :
        a \in FieldValues(<<"a">>), b \in FieldValues(<<"b">>), c \in FieldValues(<<"c">>) }

DescriptionHits ==
    { MakeDict(<< <<"url", Str(Url1)>>, <<"description", a>>, <<"snippet", b>>,
                  <<"summary", c>>, <<"content", d>> >>) :
        a \in FieldValues(<<"A">>), b \in FieldValues(<<"B">>),
        c \in FieldValues(<<"C">>), d \in FieldValues(<<"D">>) }
    \cup { Dict(<< <<"url", Str(Url1)>>, <<"snippet", Str(LongDesc)>> >>) }

ScoreValues == {Absent, Null, Num(0), Num(50), Num(75), Str(<<"a", "b", "c">>)}

ScoreHits ==
    { MakeDict(<< <<"title", Str(ShortText)>>, <<"url", Str(Url1)>>,
                  <<"relevance_score", a>>, <<"score", b>> >>) :
        a \in ScoreValues, b \in ScoreValues }

\* items of a list of hits: two good hits, one without a url, two whose score float()
\* rejects, and an element that is no map
UnitItems ==
    { Dict(<< <<"title", Str(ShortText)>>, <<"url", Str(Url1)>> >>),
      Dict(<< <<"url", Str(Url2)>>, <<"snippet", Str(OtherText)>> >>),
      Dict(<< <<"title", Str(ShortText)>> >>),
      Dict(<< <<"title", Str(ShortText)>>, <<"url", Str(Url1)>>, <<"score", Null>> >>),
      Dict(<< <<"title", Str(OtherText)>>, <<"link", Str(Url2)>>,
              <<"relevance_score", Str(<<"a", "b", "c">>)>> >>),
      Str(<<"x">>) }

UnitHitLists == UNION {[1..n -> UnitItems] : n \in 0..MaxHits}

\* maps that carry several shape keys, or a shape key whose value is no list
ShapeValues(hit) ==
    {Absent, List(<<hit>>), List(<<>>), Null, Num(3), Str(<<"x", "y">>),
     Dict(<< <<"a", Null>> >>)}

PrecedenceMaps ==
    { MakeDict(<< <<"results", r>>, <<"links", l>>, <<"url", u>>,
                  <<"title", Str(<<"S">>)>> >>) :
        r \in ShapeValues(Dict(<< <<"title", Str(<<"R">>)>>, <<"url", Str(Url1)>> >>)),
        l \in ShapeValues(Dict(<< <<"title", Str(<<"L">>)>>, <<"url", Str(Url2)>> >>)),
        u \in {Absent, Str(Url1)} }

MaxResultsValues == (-1)..MaxResultsArg

\* a 200 answer whose payload is data, as the nested JSON text, as the content or as
\* the result itself
Answers(data) ==
    { [kind |-> "response", status |-> HttpOk,
       body |-> JsonText(Dict(<< <<"result", r>> >>))] :
        r \in { Dict(<< <<"content", List(<<TextItem(JsonText(data))>>)>> >>),
                Dict(<< <<"content", data>> >>),
                data } }

UnitInputs ==
    { [fn |-> "format_results", results |-> results] : results \in ResultLists }
    \cup
    { [fn |-> "fetch_webpage", url |-> Url1, outcome |-> outcome] :
        outcome \in FetchOutcomes \cup LongPages }
    \cup
    { [fn |-> "create_search_result", item |-> item] :
        item \in TitleHits \cup UrlHits \cup DescriptionHits \cup ScoreHits }
    \cup
    { [fn |-> "parse_search_results", data |-> data, max_results |-> max_results] :
        data \in UNION {ListShapes(hits) : hits \in UnitHitLists} \cup PrecedenceMaps,
        max_results \in MaxResultsValues }
    \cup
    { [fn |-> "search", query |-> ShortQuery, max_results |-> max_results, http |-> http] :
        http \in UNION {Answers(data) : data \in UNION {ListShapes(hits) : hits \in UnitHitLists}},
        max_results \in MaxResultsValues }

UnitIdle ==
    /\ u_pc = "idle"
    /\ u_in = None
    /\ u_out = None

UnitInit ==
    /\ u_pc = "called"
    /\ u_in \in UnitInputs
    /\ u_out = None

FormatResults ==
    /\ u_pc = "called"
    /\ u_in.fn = "format_results"
    /\ u_out' = format_results(u_in.results)
    /\ u_pc' = "returned"
    /\ UNCHANGED u_in
    /\ UNCHANGED <<search_vars, synth_vars, pipe_vars>>

FetchWebpage ==
    /\ u_pc = "called"
    /\ u_in.fn = "fetch_webpage"
    /\ u_out' = fetch_webpage(u_in.url, u_in.outcome)
    /\ u_pc' = "returned"
    /\ UNCHANGED u_in
    /\ UNCHANGED <<search_vars, synth_vars, pipe_vars>>

CreateSearchResult ==
    /\ u_pc = "called"
    /\ u_in.fn = "create_search_result"
    /\ u_out' = create_search_result(u_in.item)
    /\ u_pc' = "returned"
    /\ UNCHANGED u_in
    /\ UNCHANGED <<search_vars, synth_vars, pipe_vars>>

ParseSearchResults ==
    /\ u_pc = "called"
    /\ u_in.fn = "parse_search_results"
    /\ u_out' = parse_search_results(u_in.data, u_in.max_results)
    /\ u_pc' = "returned"
    /\ UNCHANGED u_in
    /\ UNCHANGED <<search_vars, synth_vars, pipe_vars>>

Search ==
    /\ u_pc = "called"
    /\ u_in.fn = "search"
    /\ u_out' = search(u_in.query, u_in.max_results, u_in.http)
    /\ u_pc' = "returned"
    /\ UNCHANGED u_in
    /\ UNCHANGED <<search_vars, synth_vars, pipe_vars>>

UnitNext ==
    \/ FormatResults
    \/ FetchWebpage
    \/ CreateSearchResult
    \/ ParseSearchResults
    \/ Search

----------------------------------------------------------------------------
Init == SearchInit /\ SynthInit /\ PipeIdle /\ UnitIdle

SearchSpec == Init /\ [][SearchNext]_vars

SynthSpec == Init /\ [][SynthNext]_vars

PipelineInit == SearchInit /\ SynthInit /\ PipeInit /\ UnitIdle

PipelineSpec == PipelineInit /\ [][PipelineNext]_vars

UnitSpecInit == SearchInit /\ SynthInit /\ PipeIdle /\ UnitInit

UnitSpec == UnitSpecInit /\ [][UnitNext]_vars

----------------------------------------------------------------------------
(* Claims about the search client and manager, under SearchSpec *)

Returned == s_client.val

JsonBody(http) == http.kind = "response" /\ http.status = HttpOk /\ http.body.t = "jsontext"

\* the envelope of a 200 response that _send_mcp_request returns to search
GoodEnvelope(http) ==
    /\ JsonBody(http)
    /\ http.body.v.t = "dict"
    /\ ~HasKey(http.body.v, "error")

\* the failures C1 lists
RemoteFailure(http) ==
    \/ http.kind = "neterr"
    \/ http.kind = "response" /\ http.status # HttpOk
    \/ http.kind = "response" /\ http.body.t # "jsontext"
    \/ JsonBody(http) /\ http.body.v.t # "dict"
    \/ JsonBody(http) /\ http.body.v.t = "dict" /\ HasKey(http.body.v, "error")
    \/ ~search_try(s_args.query, s_args.max_results, http).ok

\* C1: search never raises, and returns the empty sequence after a transport error,
\* a non-200 status, a body that is no JSON or no map, an error envelope, or an
\* exception while parsing.
C1_SearchNeverRaises ==
    s_pc = "done" =>
        /\ s_client.ok
        /\ RemoteFailure(s_http) => Returned = <<>>

C1_Witness ==
    /\ s_pc = "done"
    /\ JsonBody(s_http)
    /\ s_http.body.v.t = "list"
    /\ Len(s_http.body.v.v) > 0
    /\ s_client = Ok(<<>>)

\* the string the plain-text path wraps: result.content[0].text, or result.content,
\* when it is a string that is no JSON document; Null when the response has none
PlainText(http) ==
    IF ~GoodEnvelope(http) THEN Null
    ELSE LET result_data == get(http.body.v, "result", Dict(<<>>))
         IN  IF result_data.t # "dict" \/ ~HasKey(result_data, "content") THEN Null
             ELSE LET content == DictGet(result_data, "content")
                      text == IF content.t = "list" /\ Len(content.v) > 0
                                   /\ content.v[1].t = "dict" /\ HasKey(content.v[1], "text")
                              THEN DictGet(content.v[1], "text")
                              ELSE content
                  IN  IF text.t = "str" THEN text ELSE Null

\* C2 as stated: every returned SearchResult has a non-empty title and a non-empty url.
C2_TitleAndUrlNonEmpty ==
    s_pc = "done" =>
        \A i \in 1..Len(Returned) : Len(Returned[i].title) > 0 /\ Len(Returned[i].url) > 0

\* C2, amended: every returned SearchResult has a non-empty title, and a non-empty url
\* unless the response took the plain-text path, whose single record has an empty url.
C2_NonEmptyUnlessDegraded ==
    s_pc = "done" =>
        IF PlainText(s_http).t = "str"
        THEN Len(Returned) = 1 /\ Len(Returned[1].title) > 0 /\ Returned[1].url = <<>>
        ELSE \A i \in 1..Len(Returned) :
                Len(Returned[i].title) > 0 /\ Len(Returned[i].url) > 0

\* the hits of a response shaped {result: {content: [{text: <JSON array>}]}}; Null otherwise
NestedArray(http) ==
    IF ~GoodEnvelope(http) THEN Null
    ELSE LET result_data == get(http.body.v, "result", Dict(<<>>))
         IN  IF result_data.t # "dict" \/ ~HasKey(result_data, "content") THEN Null
             ELSE LET content == DictGet(result_data, "content")
                  IN  IF content.t = "list" /\ Len(content.v) > 0
                         /\ content.v[1].t = "dict" /\ HasKey(content.v[1], "text")
                         /\ DictGet(content.v[1], "text").t = "jsontext"
                         /\ DictGet(content.v[1], "text").v.t = "list"
                      THEN DictGet(content.v[1], "text").v
                      ELSE Null

HitObjects(array) == array.t = "list" /\ \A i \in 1..Len(array.v) : array.v[i].t = "dict"

\* a hit with neither a title-like nor a url-like field
MissingBoth(hit) ==
    \A k \in {"title", "name", "heading", "url", "link", "href"} : ~HasKey(hit, k)

C2_Witness ==
    /\ s_pc = "done"
    /\ HitObjects(NestedArray(s_http))
    /\ Len(NestedArray(s_http).v) = 2
    /\ MissingBoth(NestedArray(s_http).v[1])
    /\ s_args.max_results = 2
    /\ Len(Returned) = 1

\* C3: every returned SearchResult has a title of at most 200 characters and a
\* description of at most 300 characters.
C3_LengthCaps ==
    s_pc = "done" =>
        \A i \in 1..Len(Returned) :
            Len(Returned[i].title) <= TitleLimit /\ Len(Returned[i].description) <= DescLimit

\* C4: every returned SearchResult has relevanceScore >= 0.
C4_ScoreNonNegative ==
    s_pc = "done" => \A i \in 1..Len(Returned) : Returned[i].relevance_score >= 0

Numeric(x) == x.t = "num" \/ (x.t = "jsontext" /\ x.v.t = "num")

\* the hit has a non-empty url-like field and score fields that float() accepts
Convertible(hit) ==
    /\ \E k \in {"url", "link", "href"} : HasKey(hit, k) /\ Truthy(DictGet(hit, k))
    /\ LET rs == get(hit, "relevance_score", Num(0))
       IN  /\ Numeric(rs)
           /\ PyFloat(rs).val = 0 => Numeric(get(hit, "score", Num(0)))

\* C5 as stated: for a nested JSON array of hit objects, one SearchResult per hit of the
\* array, in the array's order.
C5_OnePerHit ==
    (s_pc = "done" /\ HitObjects(NestedArray(s_http))) =>
        LET hits == NestedArray(s_http).v
        IN  /\ Len(Returned) = Len(hits)
            /\ \A i \in 1..Len(hits) : Returned[i] = create_search_result(hits[i])

\* C5, amended: for a nested JSON array of hit objects, one SearchResult per hit of
\* array[:maxResults] that has a non-empty url-like field and score fields that convert
\* to a number, in the array's order; the other hits yield no record.
C5_OnePerConvertibleHit ==
    (s_pc = "done" /\ HitObjects(NestedArray(s_http))) =>
        LET hits == SelectSeq(Take(NestedArray(s_http).v, s_args.max_results), Convertible)
        IN  /\ Len(Returned) = Len(hits)
            /\ \A i \in 1..Len(hits) : Returned[i] = create_search_result(hits[i])

C5_Witness ==
    /\ s_pc = "done"
    /\ HitObjects(NestedArray(s_http))
    /\ Len(NestedArray(s_http).v) = 2
    /\ s_args.max_results = 1
    /\ Len(Returned) = 1
    /\ Returned[1].url = Url2

\* C6: search_for_topic never raises, passes the caller's max_results when given and
\* the manager's cap when absent, and defaults news_only to true and days_back to 7.
C6_ManagerDelegates ==
    /\ s_pc = "posted" =>
        /\ s_args.max_results =
              (IF s_call.max_results.t = "num" THEN s_call.max_results.v ELSE s_cap)
        /\ s_args.news_only =
              (IF s_call.news_only.t = "bool" THEN s_call.news_only.v ELSE TRUE)
        /\ s_args.days_back =
              (IF s_call.days_back.t = "num" THEN s_call.days_back.v ELSE DefaultDaysBack)
    /\ s_pc = "done" => s_ret.ok

----------------------------------------------------------------------------
(* Claims about the page fetcher and the synthesizers, under SynthSpec *)

Resolved(i) == g_results[i].t # "pending"

\* every fetch of the call has resolved and none succeeded (also when urls is empty)
NoFetchSucceeded ==
    /\ g_pc \in {"fetching", "completing", "done"}
    /\ AllResolved
    /\ \A i \in 1..Len(g_results) : ~g_results[i].success

\* C7: fetch_webpage never raises: a failed fetch yields success=false, content=null,
\* title=null and a non-empty error string; a successful one success=true, error=null.
C7_FetchRecord ==
    \A i \in 1..Len(g_results) :
        Resolved(i) =>
            IF g_results[i].success
            THEN g_results[i].error.t = "null"
            ELSE /\ g_results[i].content.t = "null"
                 /\ g_results[i].title.t = "null"
                 /\ g_results[i].error.t = "str"
                 /\ Len(g_results[i].error.v) > 0

\* C8: when no fetch succeeds (also for empty urls), generate_podcast_script returns
\* the refusal message and makes no completion call.
C8_RefusesWithoutCompletion ==
    (g_tool = "generate_podcast_script" /\ NoFetchSucceeded) =>
        /\ g_calls = 0
        /\ g_pc # "completing"
        /\ g_pc = "done" =>
            /\ g_ret.ok
            /\ g_ret.val.kind = "refusal"
            /\ g_ret.val.text = RefusalMessage

C8_Witness ==
    /\ g_tool = "generate_podcast_script"
    /\ Len(g_urls) = 2
    /\ NoFetchSucceeded
    /\ g_pc = "done"
    /\ g_ret.val.text = RefusalMessage
    /\ g_calls = 0

\* C9: the storytelling, analysis and comparison tools make no completion call when
\* no fetch succeeds.
C9_VariantsRefuse ==
    (g_tool \in Tools \ {"generate_podcast_script"} /\ NoFetchSucceeded) => g_calls = 0

\* C10: the context of generate_podcast_script holds one block per url, in the order of
\* urls and numbered by position, a success block where that url's fetch succeeded and
\* a failure block otherwise, whatever the order in which the fetches completed.
C10_ContextInUrlOrder ==
    (g_tool = "generate_podcast_script" /\ g_pc \in {"completing", "done"}) =>
        /\ Len(g_context) = Len(g_urls)
        /\ \A i \in 1..Len(g_urls) :
            /\ g_context[i].n = i
            /\ g_context[i].url = g_urls[i]
            /\ IF g_results[i].success
               THEN /\ g_context[i].kind = "source"
                    /\ g_context[i].title = g_results[i].title
                    /\ g_context[i].content = g_results[i].content
               ELSE /\ g_context[i].kind = "FAILED"
                    /\ g_context[i].error = g_results[i].error

C10_Witness ==
    /\ g_tool = "generate_podcast_script"
    /\ g_pc = "completing"
    /\ g_completed = <<2, 1>>
    /\ g_urls[1] # g_urls[2]
    /\ g_results[1].success
    /\ ~g_results[2].success
    /\ g_context[2].kind = "FAILED"

\* the successful results of the call, in the order of urls
Succeeded(result) == result.success

Successes == SelectSeq(g_results, Succeeded)

SomeFetchSucceeded ==
    /\ g_pc \in {"fetching", "completing", "done"}
    /\ AllResolved
    /\ \E i \in 1..Len(g_results) : g_results[i].success

\* C11: a generate_podcast_script call in which at least one fetch succeeds makes
\* exactly one completion request, never a second one, and when that request returns
\* text the call returns a script that embeds it.
C11_OneCompletionEmbedded ==
    (g_tool = "generate_podcast_script" /\ SomeFetchSucceeded) =>
        /\ g_calls = (IF g_pc = "fetching" THEN 0 ELSE 1)
        /\ (g_pc = "done" /\ g_llm.kind = "text") =>
            /\ g_ret.ok
            /\ g_ret.val.kind = "script"
            /\ g_ret.val.body = g_llm.text

\* one of two fetches succeeded
C11_Witness ==
    /\ g_tool = "generate_podcast_script"
    /\ g_pc = "done"
    /\ Len(g_urls) = 2
    /\ Len(Successes) = 1
    /\ g_calls = 1
    /\ g_llm.kind = "text"
    /\ g_ret.val.body = "SCRIPT_BODY"

ScriptReturned ==
    /\ g_tool = "generate_podcast_script"
    /\ g_pc = "done"
    /\ g_ret.ok
    /\ g_ret.val.kind = "script"

\* the lines of the source list that closes the returned string
SourceLines == splitlines(source_list(g_ret.val.sources))

\* C12: the string generate_podcast_script returns reports the ratio k/N, k the number
\* of successful fetches and N = len(urls), and its trailing source list has exactly k
\* lines, the i-th being "- {title} ({url})" of the i-th successful fetch in the order
\* of urls, with no line for a failed fetch.
C12_RatioAndBulletLines ==
    ScriptReturned =>
        /\ g_ret.val.analyzed = <<Len(Successes), Len(g_urls)>>
        /\ Len(SourceLines) = Len(Successes)
        /\ \A j \in 1..Len(Successes) :
            SourceLines[j] = <<"-", " ">> \o format_value(Successes[j].title)
                             \o <<" ", "(">> \o Successes[j].url \o <<")">>

----------------------------------------------------------------------------
(* Claims about the pipeline driver, under PipelineSpec *)

\* the search has returned results none of which has a url
NoUrlFound == s_ret.ok /\ \A i \in 1..Len(s_ret.val) : s_ret.val[i].url = <<>>

SynthesizerUntouched ==
    /\ g_pc = "idle"
    /\ g_tool = "none"
    /\ g_results = <<>>
    /\ g_completed = <<>>
    /\ g_calls = 0

\* C13: when the search yields zero urls (no results, or only results with an empty
\* url), main stops without calling the synthesizer, without fetching a page and
\* without writing the output file, and does not raise.
C13_StopsWithoutUrls ==
    /\ [][(p_pc = "searching" /\ s_pc = "done" /\ NoUrlFound) =>
            (p_pc' = "done" /\ p_urls' = <<>> /\ p_ret'.ok)]_vars
    /\ [](((p_pc = "searching" /\ s_pc = "done" /\ NoUrlFound) \/ (p_pc = "done" /\ p_urls = <<>>)) =>
            (SynthesizerUntouched /\ p_writes = 0 /\ p_file \in {NoFile, OldFile}))

\* a search was made, it yielded no url, and the run has ended
C13_Witness ==
    /\ p_pc = "done"
    /\ s_posts = 1
    /\ p_urls = <<>>
    /\ p_ret = Ok(Null)
    /\ g_pc = "idle"
    /\ p_file = NoFile

\* the one completion request of the run raised, or returned no content block
CompletionFailed == g_pc = "done" /\ g_calls = 1 /\ g_llm.kind # "text"

\* C14: when the completion call fails, the exception leaves generate_podcast_script,
\* generate_script_from_urls catches it and returns False, and the output file is
\* neither created nor modified.
C14_FailureCaughtNoFile ==
    /\ [](CompletionFailed =>
            /\ g_ret = Raise(g_llm.message)
            /\ p_writes = 0
            /\ p_pc = "done" => p_ret = Ok(Bool(FALSE)))
    /\ [][CompletionFailed => p_file' = p_file]_vars

\* the request raised with a file of the same name left by an earlier run
C14_Witness ==
    /\ p_pc = "done"
    /\ g_pc = "done"
    /\ g_calls = 1
    /\ g_llm.kind = "error"
    /\ p_ret = Ok(Bool(FALSE))
    /\ p_file = OldFile

----------------------------------------------------------------------------
(* Claims about single routines, under UnitSpec *)

FormatReturned == u_pc = "returned" /\ u_in.fn = "format_results"

\* the lines of a listing, cut into blocks at its blank lines
RECURSIVE blocks_of(_, _)
blocks_of(lines, block) ==
    IF Len(lines) = 0 THEN (IF Len(block) > 0 THEN <<block>> ELSE <<>>)
    ELSE IF Head(lines) = <<>> THEN <<block>> \o blocks_of(Tail(lines), <<>>)
    ELSE blocks_of(Tail(lines), Append(block, Head(lines)))

Shown(optional) == optional.show

\* the lines a record is to emit: its numbered title line, then of the URL, description
\* and relevance lines those whose condition holds
ExpectedBlock(i, result) ==
    LET optional ==
            << [show |-> result.url # <<>>, line |-> UrlLabel \o result.url],
               [show |-> result.description # <<>>,
                line |-> DescriptionLabel \o result.description],
               [show |-> result.relevance_score > 0,
                line |-> IF result.relevance_score > 0
                         THEN RelevanceLabel \o two_places(result.relevance_score)
                         ELSE <<>>] >>
        shown == SelectSeq(optional, Shown)
    IN  << decimal(i) \o <<".", " ">> \o result.title >>
        \o [k \in 1..Len(shown) |-> shown[k].line]

\* C15: format_results returns "No relevant links found." for an empty sequence, and
\* otherwise a listing numbered from 1 in input order in which each record emits its
\* title line, a URL line only if url is non-empty, a description line only if
\* description is non-empty and a relevance line only if relevance_score > 0, in this
\* order.
C15_Listing ==
    FormatReturned =>
        IF u_in.results = <<>> THEN u_out = NoLinksText
        ELSE LET blocks == blocks_of(splitlines(u_out), <<>>)
             IN  /\ Len(blocks) = Len(u_in.results)
                 /\ \A i \in 1..Len(blocks) : blocks[i] = ExpectedBlock(i, u_in.results[i])

\* two records, the first with every optional line, the second with none
C15_Witness ==
    /\ FormatReturned
    /\ Len(u_in.results) = 2
    /\ u_in.results[1] = SearchResult(ShortText, Url1, OtherText, 75)
    /\ u_in.results[2] = SearchResult(ShortText, <<>>, <<>>, -100)
    /\ Len(splitlines(u_out)) = 6

FetchReturned == u_pc = "returned" /\ u_in.fn = "fetch_webpage"

\* the whitespace-normalized text of the page fetched
Normalized == clean_text(u_in.outcome.text)

\* C16: every successful fetch_webpage result has a content of at most 15,000
\* characters, equal to the first 15,000 characters of the whitespace-normalized page
\* text (all of it when it is shorter).
C16_ContentTruncated ==
    (FetchReturned /\ u_out.success) =>
        LET content == u_out.content.v
        IN  /\ Len(content) <= ContentLimit
            /\ Len(content) <= Len(Normalized)
            /\ content = SubSeq(Normalized, 1, Len(content))
            /\ Len(content) = ContentLimit \/ Len(content) = Len(Normalized)

\* a page whose text passes the limit only once the clean-up has joined its phrases
C16_Witness ==
    /\ FetchReturned
    /\ u_out.success
    /\ Len(u_in.outcome.text) > ContentLimit
    /\ Len(Normalized) > ContentLimit
    /\ Len(u_out.content.v) = ContentLimit
    /\ u_out.content.v[ContentLimit] = " "

----------------------------------------------------------------------------
(* Further claims about the synthesizers, under SynthSpec *)

\* what the await of asyncio.gather hands to the routine
Joined == gather(g_results, g_completed)

\* C17: in every synthesis routine no completion request is made before every one of
\* the N fetches has resolved, and a failed fetch takes no sibling with it: the join
\* yields exactly N FetchedPage records, the i-th for the i-th url.
C17_JoinBarrier ==
    (g_calls > 0 \/ g_pc \in {"completing", "done"}) =>
        /\ AllResolved
        /\ \A i \in 1..Len(g_results) : Resolved(i)
        /\ Len(Joined) = Len(g_urls)
        /\ \A i \in 1..Len(g_urls) :
            /\ Joined[i].t = "FetchedPage"
            /\ Joined[i].url = g_urls[i]

\* the first fetch to resolve failed, its sibling then succeeded, and the request was made
C17_Witness ==
    /\ g_tool = "compare_sources_podcast"
    /\ g_pc = "completing"
    /\ g_calls = 1
    /\ g_completed = <<2, 1>>
    /\ ~g_results[2].success
    /\ g_results[1].success

----------------------------------------------------------------------------
(* Further claims about the pipeline driver, under PipelineSpec *)

\* how far the run has come
Stage ==
    CASE p_pc = "start" -> 0
      [] p_pc = "searching" /\ s_pc = "posted" -> 1
      [] p_pc = "searching" /\ s_pc = "responded" -> 2
      [] p_pc = "searching" /\ s_pc = "done" -> 3
      [] p_pc = "synthesizing" /\ g_pc = "fetching" -> 4
      [] p_pc = "synthesizing" /\ g_pc = "completing" -> 5
      [] p_pc = "synthesizing" /\ g_pc = "done" -> 6
      [] p_pc = "done" -> 7

StagesInOrder ==
    \* no fetch task before the search has returned
    /\ g_pc # "idle" => (s_pc = "done" /\ p_pc \in {"synthesizing", "done"})
    \* no completion request before every fetch has resolved
    /\ g_calls > 0 => (AllResolved /\ \A i \in 1..Len(g_results) : Resolved(i))
    \* no write before the synthesizer has returned its string
    /\ p_writes > 0 => (g_pc = "done" /\ g_ret.ok /\ p_file = FileWith(g_ret.val))
    \* each stage at most once
    /\ s_posts <= 1
    /\ g_calls <= 1
    /\ p_writes <= 1

\* C18: in one pipeline run the search returns before any page fetch starts, all page
\* fetches resolve before the completion request is sent, the output file is written
\* only after the synthesizer has returned its string, and no stage is re-entered.
C18_StagesInOrder ==
    /\ []StagesInOrder
    /\ [][\/ Stage' > Stage
          \/ Stage = 4 /\ Stage' = 4 /\ Len(g_completed') = Len(g_completed) + 1]_vars
    /\ [][p_file' # p_file =>
            (g_pc = "done" /\ g_ret.ok /\ p_file' = FileWith(g_ret.val))]_vars

\* a run that went through every stage, with two pages fetched
C18_Witness ==
    /\ p_pc = "done"
    /\ s_posts = 1
    /\ Len(g_urls) = 2
    /\ g_calls = 1
    /\ p_writes = 1
    /\ p_file.exists
    /\ p_file.text.kind = "script"
    /\ p_ret = Ok(Bool(TRUE))

\* how many times the fetch of the i-th url has resolved
Times(i) == Cardinality({k \in 1..Len(g_completed) : g_completed[k] = i})

\* C19: there is no retry: a search call issues exactly one HTTP POST, also when the
\* POST fails or is answered with a status other than 200, and a synthesis call starts
\* one fetch per entry of urls, which resolves exactly once, also when it fails.
C19_NoRetry ==
    /\ s_pc \in {"posted", "responded", "done"} => s_posts = 1
    /\ g_pc # "idle" =>
        /\ Len(g_results) = Len(g_urls)
        /\ \A i \in 1..Len(g_urls) : Times(i) = (IF Resolved(i) THEN 1 ELSE 0)
    /\ g_pc \in {"completing", "done"} => \A i \in 1..Len(g_urls) : Times(i) = 1

\* a run whose search made its one POST and whose first fetch failed and was not
\* repeated, the second having succeeded
C19_Witness ==
    /\ p_pc = "done"
    /\ s_posts = 1
    /\ Len(g_urls) = 2
    /\ ~g_results[1].success
    /\ g_results[2].success
    /\ Times(1) = 1
    /\ g_pc = "done"

----------------------------------------------------------------------------
(* Further claims about the search client, under SearchSpec *)

\* the result member of a well-formed envelope
ResultOf(http) == get(http.body.v, "result", Dict(<<>>))

HasContent(result_data) == result_data.t = "dict" /\ HasKey(result_data, "content")

\* result.content[0].text, Absent when there is none
NestedText(result_data) ==
    IF ~HasContent(result_data) THEN Absent
    ELSE LET content == DictGet(result_data, "content")
         IN  IF content.t = "list" /\ Len(content.v) > 0
                /\ content.v[1].t = "dict" /\ HasKey(content.v[1], "text")
             THEN DictGet(content.v[1], "text")
             ELSE Absent

\* result.content, or result itself when it has no content
ContentOrResult(result_data) ==
    IF HasContent(result_data) THEN DictGet(result_data, "content") ELSE result_data

\* exactly one degraded record: relevance 0.5 and an empty url
OneDegraded(results) ==
    /\ Len(results) = 1
    /\ results[1].relevance_score = DegradedScore
    /\ results[1].url = <<>>

\* C20 as stated: if result.content[0].text exists and parses as JSON, the parsed value
\* is normalized as structured data; if it exists and does not parse, the result is
\* exactly one degraded SearchResult; if there is no nested text, result.content (or
\* result itself when it has no content) is normalized as structured data.
C20_ResolutionOrder ==
    (s_pc = "done" /\ GoodEnvelope(s_http)) =>
        LET result_data == ResultOf(s_http)
            text == NestedText(result_data)
        IN  IF text.t = "absent"
            THEN Returned = parse_search_results(ContentOrResult(result_data),
                                                 s_args.max_results)
            ELSE IF text.t = "jsontext"
                 THEN Returned = parse_search_results(text.v, s_args.max_results)
                 ELSE OneDegraded(Returned)

\* the text search() tries to parse: result.content[0].text, or result.content when
\* that is itself a string; Absent when there is neither
PayloadText(result_data) ==
    LET text == NestedText(result_data)
    IN  IF text.t # "absent" THEN text
        ELSE IF HasContent(result_data) /\ IsStr(DictGet(result_data, "content"))
             THEN DictGet(result_data, "content")
             ELSE Absent

\* C20, amended: the text is result.content[0].text or, when result.content is itself a
\* string, that string.  A text that parses as JSON has its parsed value normalized as
\* structured data; a string that does not parse yields exactly one degraded
\* SearchResult; a nested text that is no string yields the empty sequence; with no
\* text, result.content (or result itself when it has no content) is normalized as
\* structured data.
C20_ResolutionOrderWithStrings ==
    (s_pc = "done" /\ GoodEnvelope(s_http)) =>
        LET result_data == ResultOf(s_http)
            text == PayloadText(result_data)
        IN  CASE text.t = "absent" ->
                    Returned = parse_search_results(ContentOrResult(result_data),
                                                    s_args.max_results)
              [] text.t = "jsontext" ->
                    Returned = parse_search_results(text.v, s_args.max_results)
              [] text.t = "str" ->
                    /\ OneDegraded(Returned)
                    /\ Returned = parse_text_results(text.v, s_args.query)
              [] OTHER -> Returned = <<>>

\* result.content is a plain string, and search returned the degraded record
C20_Witness ==
    /\ s_pc = "done"
    /\ GoodEnvelope(s_http)
    /\ HasContent(ResultOf(s_http))
    /\ DictGet(ResultOf(s_http), "content") = Str(ShortText)
    /\ OneDegraded(Returned)
    /\ Returned[1].description = ShortText

(***************************************************************************)
(* Claims about the normalization of structured data                       *)
(***************************************************************************)

ParseReturned == u_pc = "returned" /\ u_in.fn = "parse_search_results"

\* the list of hits a list-carrying shape holds
HitsOf(data) ==
    IF data.t = "list" THEN data.v
    ELSE IF data.t = "dict" /\ HasKey(data, "results") /\ DictGet(data, "results").t = "list"
         THEN DictGet(data, "results").v
    ELSE IF data.t = "dict" /\ HasKey(data, "links") /\ DictGet(data, "links").t = "list"
         THEN DictGet(data, "links").v
    ELSE <<>>

IsListShape(data) == data \in ListShapes(HitsOf(data))

\* C21: the same list of hits presented as {results: list}, as {links: list} or as a
\* bare list yields the same sequence of SearchResult records
C21_ShapeIndependent ==
    (ParseReturned /\ IsListShape(u_in.data)) =>
        \A other \in ListShapes(HitsOf(u_in.data)) :
            parse_search_results(other, u_in.max_results) = u_out

\* a bare list of two hits cut to one record, as the results shape of it is
C21_Witness ==
    /\ ParseReturned
    /\ u_in.data.t = "list"
    /\ Len(u_in.data.v) = 2
    /\ u_in.max_results = 1
    /\ Len(u_out) = 1
    /\ parse_search_results(Dict(<< <<"results", u_in.data>> >>), 1) = u_out

CreateReturned == u_pc = "returned" /\ u_in.fn = "create_search_result"

TitleKeys == <<"title", "name", "heading">>
UrlKeys == <<"url", "link", "href">>
DescriptionKeys == <<"description", "snippet", "summary", "content">>

\* the value of the first key of keys the hit has, whatever it holds
RECURSIVE FirstPresent(_, _, _)
FirstPresent(item, keys, default) ==
    IF Len(keys) = 0 THEN default
    ELSE IF HasKey(item, Head(keys)) THEN DictGet(item, Head(keys))
    ELSE FirstPresent(item, Tail(keys), default)

\* the value of the first key of keys that holds neither null nor the empty text
RECURSIVE FirstNonEmpty(_, _, _)
FirstNonEmpty(item, keys, default) ==
    IF Len(keys) = 0 THEN default
    ELSE IF HasKey(item, Head(keys)) /\ Truthy(DictGet(item, Head(keys)))
         THEN DictGet(item, Head(keys))
    ELSE FirstNonEmpty(item, Tail(keys), default)

OnlySnippet(item) ==
    /\ HasKey(item, "snippet")
    /\ DictGet(item, "snippet").t = "str"
    /\ \A i \in 1..Len(DescriptionKeys) :
           DescriptionKeys[i] # "snippet" => ~HasKey(item, DescriptionKeys[i])

\* C22 as stated: each field of a record is the value of the first present key of its
\* synonym list, else its default, and a lone snippet is the description
C22_FirstPresentKey ==
    (CreateReturned /\ u_out.t = "SearchResult") =>
        /\ Str(u_out.title) = FirstPresent(u_in.item, TitleKeys, Str(SearchResultLiteral))
        /\ Str(u_out.url) = FirstPresent(u_in.item, UrlKeys, Str(<<>>))
        /\ Str(u_out.description) = FirstPresent(u_in.item, DescriptionKeys, Str(<<>>))
        /\ OnlySnippet(u_in.item) => u_out.description = DictGet(u_in.item, "snippet").v

\* C22: each field of a record is the text of the first key of its synonym list that
\* holds a non-empty value, else its default, the title cut to 200 characters and the
\* description to 300; a lone snippet is the description, cut to 300 characters
C22_FirstNonEmptyKey ==
    (CreateReturned /\ u_out.t = "SearchResult") =>
        /\ u_out.title =
               Take(FirstNonEmpty(u_in.item, TitleKeys, Str(SearchResultLiteral)).v, TitleLimit)
        /\ u_out.url = FirstNonEmpty(u_in.item, UrlKeys, Str(<<>>)).v
        /\ u_out.description =
               Take(FirstNonEmpty(u_in.item, DescriptionKeys, Str(<<>>)).v, DescLimit)
        /\ OnlySnippet(u_in.item) =>
               u_out.description = Take(DictGet(u_in.item, "snippet").v, DescLimit)

\* a hit whose description is null and whose snippet is a text: the record carries the
\* snippet
C22_Witness ==
    /\ CreateReturned
    /\ u_out.t = "SearchResult"
    /\ HasKey(u_in.item, "description")
    /\ DictGet(u_in.item, "description").t = "null"
    /\ HasKey(u_in.item, "snippet")
    /\ Truthy(DictGet(u_in.item, "snippet"))
    /\ u_out.description = DictGet(u_in.item, "snippet").v

\* C23: the relevance_score of a kept record is the hit's relevance_score when that key
\* is present, else its score when present, else 0; a present relevance_score of 0 is
\* kept and not replaced by a nonzero score
C23_RelevanceScorePreserved ==
    (CreateReturned /\ u_out.t = "SearchResult") =>
        u_out.relevance_score =
            IF HasKey(u_in.item, "relevance_score") THEN DictGet(u_in.item, "relevance_score").v
            ELSE IF HasKey(u_in.item, "score") THEN DictGet(u_in.item, "score").v
            ELSE 0

----------------------------------------------------------------------------
(* Claims about the urls and the file of a run, under PipelineSpec *)

\* the urls of the results that have one, in the order of the results
RECURSIVE NonEmptyUrls(_)
NonEmptyUrls(results) ==
    IF Len(results) = 0 THEN <<>>
    ELSE (IF Head(results).url # <<>> THEN <<Head(results).url>> ELSE <<>>)
             \o NonEmptyUrls(Tail(results))

SearchSucceeded == p_pc = "searching" /\ s_pc = "done" /\ s_ret.ok

\* C24: the url list the driver passes to the synthesizer is exactly the subsequence of
\* the search results' urls that are non-empty, in the order of the results, with no
\* url added, reordered or deduplicated
C24_UrlsAreSubsequence ==
    /\ [][SearchSucceeded =>
            /\ p_urls' = NonEmptyUrls(s_ret.val)
            /\ p_urls' # <<>> => (p_pc' = "synthesizing" /\ g_urls' = p_urls')]_vars
    /\ [][p_pc = "synthesizing" => (g_urls' = g_urls /\ p_urls' = p_urls)]_vars
    /\ [](p_pc = "synthesizing" => g_urls = p_urls)

\* two results with the same url: the synthesizer is given the url twice
C24_Witness ==
    /\ p_pc = "synthesizing"
    /\ s_posts = 1
    /\ g_tool = "generate_podcast_script"
    /\ g_urls = <<Url1, Url1>>
    /\ p_urls = <<Url1, Url1>>

\* every page fetch of the run failed and generate_podcast_script has returned
AllFetchesFailed ==
    /\ p_pc \in {"synthesizing", "done"}
    /\ g_pc = "done"
    /\ Len(g_results) > 0
    /\ \A i \in 1..Len(g_results) : ~g_results[i].success

\* C25: when every page fetch fails, generate_podcast_script returns the refusal message
\* without raising; whenever it returns without raising, generate_script_from_urls
\* writes what it returned to the output file and returns True (False, with the file
\* left alone, only when the file cannot be opened), so a refusal is reported as a
\* completed script generation
C25_RefusalWrittenAsScript ==
    /\ [](AllFetchesFailed => (g_ret = Ok([kind |-> "refusal", text |-> RefusalMessage]) /\ g_calls = 0))
    /\ [][(p_pc = "synthesizing" /\ g_pc = "done" /\ g_ret.ok) =>
            /\ p_pc' = "done"
            /\ \/ /\ p_ret' = Ok(Bool(TRUE))
                  /\ p_file' = FileWith(g_ret.val)
                  /\ p_writes' = p_writes + 1
               \/ /\ p_ret' = Ok(Bool(FALSE))
                  /\ p_file' = p_file
                  /\ p_writes' = p_writes]_vars
    /\ []((p_pc = "done" /\ g_pc = "done" /\ g_ret.ok /\ p_ret = Ok(Bool(TRUE))) =>
            (p_file = FileWith(g_ret.val) /\ p_writes = 1))

\* both fetches failed, and the refusal message is what the output file holds
C25_Witness ==
    /\ p_pc = "done"
    /\ AllFetchesFailed
    /\ Len(g_urls) = 2
    /\ g_ret.ok
    /\ g_ret.val.kind = "refusal"
    /\ p_file = FileWith(g_ret.val)
    /\ p_writes = 1
    /\ p_ret = Ok(Bool(TRUE))

----------------------------------------------------------------------------
(* Claims about the hits kept and dropped, under UnitSpec *)

\* the hit is a map with a non-empty url, link or href
HasUrlField(item) ==
    /\ item.t = "dict"
    /\ \E i \in 1..Len(UrlKeys) :
           /\ HasKey(item, UrlKeys[i])
           /\ Truthy(DictGet(item, UrlKeys[i]))

\* C26: every hit map with a non-empty url, link or href among the first max_results
\* hits produces a record in the output of _parse_search_results, whatever its other
\* fields hold, a null or non-numeric relevance_score or score included
C26_EveryUrlHitKept ==
    (ParseReturned /\ IsListShape(u_in.data)) =>
        LET examined == Take(HitsOf(u_in.data), u_in.max_results)
        IN  Len(u_out) = Cardinality({i \in 1..Len(examined) : HasUrlField(examined[i])})

SearchReturned == u_pc = "returned" /\ u_in.fn = "search"

\* the structured data an answer carries: the parsed nested text, else the content,
\* else the result
StructuredOf(http) ==
    LET text == NestedText(ResultOf(http))
    IN  IF text.t = "jsontext" THEN text.v ELSE ContentOrResult(ResultOf(http))

\* the hit is a map from which _create_search_result makes a record
Yields(item) == item.t = "dict" /\ create_search_result(item).t # "null"

\* C27: for the results, links and bare-list shapes, search with max_results >= 0
\* returns at most max_results records: the records of the first max_results hits that
\* yield one, in the order of the hits; a dropped hit among them is not replaced by a
\* later hit
C27_OnlyFirstHitsExamined ==
    (SearchReturned /\ u_in.max_results >= 0) =>
        LET hits == HitsOf(StructuredOf(u_in.http))
            kept == {i \in 1..Min(u_in.max_results, Len(hits)) : Yields(hits[i])}
            Nth(k) == CHOOSE i \in kept : Cardinality({j \in kept : j < i}) = k - 1
        IN  /\ u_out.ok
            /\ Len(u_out.val) <= u_in.max_results
            /\ Len(u_out.val) = Cardinality(kept)
            /\ \A k \in 1..Len(u_out.val) :
                   u_out.val[k] = create_search_result(hits[Nth(k)])

\* two hits and max_results 1: the first hit has no url and is dropped, the second one
\* is valid and is not returned
C27_Witness ==
    /\ SearchReturned
    /\ u_in.max_results = 1
    /\ Len(HitsOf(StructuredOf(u_in.http))) = 2
    /\ ~Yields(HitsOf(StructuredOf(u_in.http))[1])
    /\ Yields(HitsOf(StructuredOf(u_in.http))[2])
    /\ u_out = Ok(<<>>)

\* the records of the items that yield one, in the order of the items
RecordsOf(items) ==
    LET kept == {i \in 1..Len(items) : Yields(items[i])}
        Nth(k) == CHOOSE i \in kept : Cardinality({j \in kept : j < i}) = k - 1
    IN  [k \in 1..Cardinality(kept) |-> create_search_result(items[Nth(k)])]

\* the records of the first max_results hits of a list, none for what is no list
RecordsUnder(x, max_results) ==
    IF x.t = "list" THEN RecordsOf(Take(x.v, max_results)) ELSE <<>>

\* C28: in a structured map `results` takes precedence over `links` and `links` over
\* the single-hit `url` form; a map whose `results` value is not a list yields the
\* empty sequence even when its `links` value is a valid list of hits
C28_ShapePrecedence ==
    (ParseReturned /\ u_in.data.t = "dict") =>
        u_out =
            IF HasKey(u_in.data, "results")
            THEN RecordsUnder(DictGet(u_in.data, "results"), u_in.max_results)
            ELSE IF HasKey(u_in.data, "links")
            THEN RecordsUnder(DictGet(u_in.data, "links"), u_in.max_results)
            ELSE IF HasKey(u_in.data, "url") THEN RecordsOf(<<u_in.data>>)
            ELSE <<>>

\* results holds null, links a valid hit and url a text: nothing is returned
C28_Witness ==
    /\ ParseReturned
    /\ u_in.data.t = "dict"
    /\ u_in.max_results = MaxResultsArg
    /\ HasKey(u_in.data, "results")
    /\ DictGet(u_in.data, "results").t = "null"
    /\ HasKey(u_in.data, "links")
    /\ RecordsUnder(DictGet(u_in.data, "links"), u_in.max_results) # <<>>
    /\ HasKey(u_in.data, "url")
    /\ u_out = <<>>

====
